---- MODULE Spec2Model ----
(***************************************************************************)
(* Model of edward/inferences/hmc.py: the HMC update step                  *)
(* (HMC.build_update), the leapfrog integrator (leapfrog) and the          *)
(* log-joint oracle they call (HMC.log_joint, tf.gradients).               *)
(*                                                                         *)
(* Numbers.  Tensors are scalars here, one per latent variable.  A float   *)
(* is modelled as an integer of -MaxFloat..MaxFloat or one of the three    *)
(* IEEE specials +Inf, -Inf, NaN; a finite result outside the range        *)
(* overflows to the infinity of its sign, as float arithmetic does.  The   *)
(* inputs are chosen so that every halving (0.5 * x) is of an even number. *)
(*                                                                         *)
(* Dictionaries.  old_sample, old_r_sample, z_new, r_new and sample are    *)
(* plain Python dicts keyed by the latent variables, and the code walks    *)
(* them with six.iterkeys / six.itervalues.  The code needs TensorFlow 0.x *)
(* (tf.select, tf.GraphKeys.VARIABLES), hence CPython 2.7 or 3.3-3.5,      *)
(* where a dict iterates in hash-slot order: two keys whose hashes meet in *)
(* one slot come out in the order of insertion when the probe slot lies    *)
(* after the home slot and in the reverse order when it lies before it.    *)
(* A dict is therefore modelled by its insertion order and its values, and *)
(* the interpreter's hash layout by the variable collide.                  *)
(***************************************************************************)
EXTENDS Integers, Sequences, FiniteSets, TLC

\* ------------------------------------------------------------------ bounds

\* Largest finite float of the model (stands for FLT_MAX).
MaxFloat == 8
\* Last index of every Empirical's params (chain length - 1).
MaxT == 3

\* ------------------------------------------------------------------ floats

PInf == MaxFloat + 1
NInf == 0 - (MaxFloat + 1)
NaN == MaxFloat + 2

Finites == (0 - MaxFloat)..MaxFloat
Val == Finites \cup {PInf, NInf, NaN}

IsFinite(x) == x \in Finites

\* Rounding of an exact finite result: overflow gives the signed infinity.
Sat(x) == IF x > MaxFloat THEN PInf ELSE IF x < 0 - MaxFloat THEN NInf ELSE x

Neg(x) == IF x = NaN THEN NaN ELSE 0 - x

Add(x, y) ==
  IF x = NaN \/ y = NaN THEN NaN
  ELSE IF x = PInf THEN (IF y = NInf THEN NaN ELSE PInf)
  ELSE IF x = NInf THEN (IF y = PInf THEN NaN ELSE NInf)
  ELSE IF y = PInf \/ y = NInf THEN y
  ELSE Sat(x + y)

Sub(x, y) == Add(x, Neg(y))

Sign(x) == IF x > 0 THEN 1 ELSE IF x < 0 THEN 0 - 1 ELSE 0

Mul(x, y) ==
  IF x = NaN \/ y = NaN THEN NaN
  ELSE IF IsFinite(x) /\ IsFinite(y) THEN Sat(x * y)
  ELSE IF x = 0 \/ y = 0 THEN NaN
  ELSE IF Sign(x) * Sign(y) > 0 THEN PInf ELSE NInf

\* 0.5 * x.
Half(x) == IF IsFinite(x) THEN x \div 2 ELSE x

\* x < y as floats compare: false as soon as one side is NaN.
Less(x, y) == x # NaN /\ y # NaN /\ x < y

Max(x, y) == IF x >= y THEN x ELSE y

\* ------------------------------------------------------------ dictionaries

\* The latent variables (keys of self.latent_vars), in the order the caller
\* inserted them.
LatentVars == <<"a", "b">>
Vars == {"a", "b"}

VARIABLES
  collide,       \* hash layout of the interpreter: the keys share a slot and
                 \* the probe slot precedes it
  oracle,        \* the model behind log_joint
  step_size,     \* self.step_size
  n_steps,       \* self.n_steps
  store,         \* qz.params of every latent variable: store[z][index]
  t,             \* self.t
  n_accept,      \* self.n_accept
  old_sample,    \* locals of the last build_update run
  old_r_sample,
  new_sample,
  new_r_sample,
  ratio,
  u,
  accept,
  lf             \* a stand-alone run of the integrator (SpecLF)

vars == <<collide, oracle, step_size, n_steps, store, t, n_accept,
          old_sample, old_r_sample, new_sample, new_r_sample, ratio, u,
          accept, lf>>

Reverse(s) == [i \in 1..Len(s) |-> s[Len(s) + 1 - i]]

\* Order in which a dict whose keys were inserted in order ins iterates.
IterOrder(ins) == IF collide THEN Reverse(ins) ELSE ins

Dict(ins, val) == [ins |-> ins, val |-> val]

\* six.iterkeys(d), list(six.itervalues(d))
IterKeys(d) == IterOrder(d.ins)
IterValues(d) == [i \in 1..Len(d.ins) |-> d.val[IterKeys(d)[i]]]

\* {k: v for k, v in zip(keys, values)}
ZipDict(keys, values) ==
  Dict(keys, [k \in Vars |-> values[CHOOSE i \in 1..Len(keys) : keys[i] = k]])

\* ------------------------------------------------------------------ oracle

\* The models explored: an improper flat density, a Gaussian, an
\* exponential tilt and a coupled pair; out says what the density evaluates
\* to outside its support (z["a"] <= 0), when the support is bounded.
Oracles == [kind : {"flat", "gauss", "tilt", "coupled"},
            out : {"none", "nan", "pinf", "ninf"}]

OutOfSupport(o, z) ==
  o.out # "none" /\ ~(IsFinite(z["a"]) /\ z["a"] <= 0)

BaseLogJoint(o, z) ==
  CASE o.kind = "flat" -> 0
    [] o.kind = "gauss" -> Neg(Add(Mul(z["a"], z["a"]), Mul(z["b"], z["b"])))
    [] o.kind = "tilt" -> Sub(Mul(2, z["a"]), Mul(2, z["b"]))
    [] o.kind = "coupled" ->
         Neg(Mul(Sub(z["a"], z["b"]), Sub(z["a"], z["b"])))

\* self.log_joint(z_sample)
LogJoint(o, z) ==
  IF OutOfSupport(o, z)
  THEN (CASE o.out = "nan" -> NaN [] o.out = "pinf" -> PInf
          [] o.out = "ninf" -> NInf)
  ELSE BaseLogJoint(o, z)

\* d log_joint / d z[key]
Grad(o, z, key) ==
  CASE o.kind = "flat" -> 0
    [] o.kind = "gauss" -> Mul(0 - 2, z[key])
    [] o.kind = "tilt" -> (IF key = "a" THEN 2 ELSE 0 - 2)
    [] o.kind = "coupled" ->
         Mul(IF key = "a" THEN 0 - 2 ELSE 2, Sub(z["a"], z["b"]))

\* tf.gradients(log_joint(d), list(six.itervalues(d))): one gradient per
\* value, in the order the values are listed.
Gradients(o, d) == [i \in 1..Len(d.ins) |-> Grad(o, d.val, IterKeys(d)[i])]

\* ---------------------------------------------------------------- leapfrog

IndexOf(keys, key) == CHOOSE i \in 1..Len(keys) : keys[i] = key

\* leapfrog(z_old, r_old, step_size, log_joint): <<z_new, r_new>>
Leapfrog(z_old, r_old, h, o) ==
  LET keys == IterKeys(z_old)
      g1 == Gradients(o, z_old)
      r_half == [k \in Vars |->
                   Add(r_old.val[k], Mul(Half(h), g1[IndexOf(keys, k)]))]
      z_new == Dict(keys, [k \in Vars |-> Add(z_old.val[k], Mul(h, r_half[k]))])
      g2 == Gradients(o, z_new)
      r_new == Dict(keys, [k \in Vars |->
                   Add(r_half[k], Mul(Half(h), g2[IndexOf(keys, k)]))])
  IN <<z_new, r_new>>

\* Leapfrog composed n times, sub-step k+1 starting from the result of
\* sub-step k (the integrator of a whole trajectory).
RECURSIVE LeapfrogChain(_, _, _, _, _)
LeapfrogChain(n, z, r, h, o) ==
  IF n = 0 THEN <<z, r>>
  ELSE LET s == Leapfrog(z, r, h, o) IN LeapfrogChain(n - 1, s[1], s[2], h, o)

\* ------------------------------------------------------------ build_update

\* Momenta the Normal sampler may draw, and the grid of the uniform draw:
\* u = 0 and u = e^-1, named by its index.
RDraws == {0, 2}
UDraws == {0, 1}

\* tf.log(u)
Log(uu) == IF uu = 0 THEN NInf ELSE 0 - 1

\* tf.maximum(self.t - 1, 0): the index build_update reads.
ReadIndex(tt) == Max(tt - 1, 0)

\* A scatter_update at the index that was read.
WriteIndexRead(tt) == Max(tt - 1, 0)

\* The index tf.scatter_update writes.
WriteIndex(tt) == tt

\* old_sample = {z: tf.gather(qz.params, ...) for z, qz in latent_vars}
OldSample(st, tt) ==
  Dict(IterOrder(LatentVars), [z \in Vars |-> st[z][ReadIndex(tt)]])

\* old_r_sample[z] = normal.sample(), for z in latent_vars
OldRSample(rs) == Dict(IterOrder(LatentVars), rs)

\* A loop that runs once more than n_steps, range(n_steps + 1).
SimulateOnceMore(n, cur, z_old, r_old, h, o) == Leapfrog(z_old, r_old, h, o)

\* The loop of lines 76-80: n calls of leapfrog, each on (old_sample,
\* old_r_sample); cur is (new_sample, new_r_sample) so far.
RECURSIVE Simulate(_, _, _, _, _, _)
Simulate(n, cur, z_old, r_old, h, o) ==
  IF n <= 0 THEN cur
  ELSE Simulate(n - 1, Leapfrog(z_old, r_old, h, o), z_old, r_old, h, o)

\* tf.reduce_sum(list)
RECURSIVE ReduceSum(_)
ReduceSum(s) == IF Len(s) = 0 THEN 0 ELSE Add(Head(s), ReduceSum(Tail(s)))

\* tf.reduce_sum([0.5 * tf.square(r) for r in six.itervalues(r_sample)])
Kinetic(r) ==
  LET vs == IterValues(r)
  IN ReduceSum([i \in 1..Len(vs) |-> Half(Mul(vs[i], vs[i]))])

\* Lines 83-88.
Ratio(z_old, r_old, z_new, r_new, o) ==
  Sub(Add(Sub(Kinetic(r_old), Kinetic(r_new)), LogJoint(o, z_new.val)),
      LogJoint(o, z_old.val))

\* accept = tf.log(u) < ratio
Accept(uu, rat) == Less(Log(uu), rat)

\* tf.cond(accept, new values, old values), zipped with the keys of
\* new_sample (lines 93-100).
Sample(acc, z_old, z_new) ==
  ZipDict(IterKeys(z_new), IF acc THEN IterValues(z_new) ELSE IterValues(z_old))

\* The branches of the select swapped, tf.select(accept, 0, 1).
AcceptIncrementSwapped(acc) == IF acc THEN 0 ELSE 1

\* tf.select(accept, 1, 0)
AcceptIncrement(acc) == IF acc THEN 1 ELSE 0

\* tf.scatter_update(variable, self.t, sample[z]) for every latent variable.
ScatterUpdate(st, tt, sample) ==
  [z \in Vars |-> [st[z] EXCEPT ![WriteIndex(tt)] = sample.val[z]]]

\* The driver runs the update once per chain index t = 1, 2, 3, ...
IncrementT(tt) == tt + 1

NoRun == [pc |-> "off", n |-> 0, h |-> 0, z0 |-> <<>>, r0 |-> <<>>,
          fwd |-> <<>>, back |-> <<>>]

\* One run of the op build_update returns, with momenta rs and draw uu.
BuildUpdate(rs, uu) ==
  \E z_old \in {OldSample(store, t)}, r_old \in {OldRSample(rs)} :
  \E new \in {Simulate(n_steps, <<z_old, r_old>>, z_old, r_old, step_size, oracle)} :
  \E rat \in {Ratio(z_old, r_old, new[1], new[2], oracle)} :
  \E acc \in {Accept(uu, rat)} :
     /\ t <= MaxT
     /\ old_sample' = z_old
     /\ old_r_sample' = r_old
     /\ new_sample' = new[1]
     /\ new_r_sample' = new[2]
     /\ ratio' = rat
     /\ u' = uu
     /\ accept' = acc
     /\ store' = ScatterUpdate(store, t, Sample(acc, z_old, new[1]))
     /\ n_accept' = n_accept + AcceptIncrement(acc)
     /\ t' = IncrementT(t)
     /\ UNCHANGED <<collide, oracle, step_size, n_steps, lf>>

Update == \E rs \in [Vars -> RDraws], uu \in UDraws : BuildUpdate(rs, uu)

\* Start values at index 0 of the chain store; the other rows hold the
\* zeros the Empirical's variable was created with.
Starts == {[z \in Vars |-> IF z = "a" THEN 0 ELSE 1],
           [z \in Vars |-> IF z = "a" THEN 1 ELSE 0]}
StepSizes == {2, 4}
NSteps == {0, 1, 2}

EmptyDict == Dict(IterOrder(LatentVars), [z \in Vars |-> 0])

Init ==
  /\ collide \in BOOLEAN
  /\ oracle \in Oracles
  /\ step_size \in StepSizes
  /\ n_steps \in NSteps
  /\ store \in {[z \in Vars |-> [i \in 0..MaxT |-> IF i = 0 THEN s[z] ELSE 0]] :
                  s \in Starts}
  /\ t = 1
  /\ n_accept = 0
  /\ old_sample = EmptyDict
  /\ old_r_sample = EmptyDict
  /\ new_sample = EmptyDict
  /\ new_r_sample = EmptyDict
  /\ ratio = 0
  /\ u = 0
  /\ accept = FALSE
  /\ lf = NoRun

Next == Update

Spec == Init /\ [][Next]_vars

\* ------------------------------------------- a stand-alone integrator run

\* Inputs of the stand-alone runs: positions, step sizes, step counts.
LfPositions == {0 - 1, 0, 1}
LfStepSizes == {2, 0 - 2}
LfSteps == {1, 2}
KeyOrders == {LatentVars, Reverse(LatentVars)}

InitLF ==
  /\ collide \in BOOLEAN
  /\ oracle \in Oracles
  /\ step_size \in StepSizes
  /\ n_steps = 0
  /\ store = [z \in Vars |-> [i \in 0..MaxT |-> 0]]
  /\ t = 1
  /\ n_accept = 0
  /\ old_sample = EmptyDict
  /\ old_r_sample = EmptyDict
  /\ new_sample = EmptyDict
  /\ new_r_sample = EmptyDict
  /\ ratio = 0
  /\ u = 0
  /\ accept = FALSE
  /\ \E n \in LfSteps, h \in LfStepSizes, ins \in KeyOrders,
        zv \in [Vars -> LfPositions], rv \in [Vars -> RDraws] :
       lf = [pc |-> "start", n |-> n, h |-> h, z0 |-> Dict(ins, zv),
             r0 |-> Dict(ins, rv), fwd |-> <<>>, back |-> <<>>]

\* Integrate forward: lf.n chained calls of leapfrog with step size lf.h.
Forward ==
  /\ lf.pc = "start"
  /\ lf' = [lf EXCEPT !.pc = "fwd",
                      !.fwd = LeapfrogChain(lf.n, lf.z0, lf.r0, lf.h, oracle)]
  /\ UNCHANGED <<collide, oracle, step_size, n_steps, store, t, n_accept,
                 old_sample, old_r_sample, new_sample, new_r_sample, ratio,
                 u, accept>>

\* Integrate back from the result: the same number of calls, step size -lf.h.
Backward ==
  /\ lf.pc = "fwd"
  /\ lf' = [lf EXCEPT !.pc = "back",
                      !.back = LeapfrogChain(lf.n, lf.fwd[1], lf.fwd[2],
                                             Neg(lf.h), oracle)]
  /\ UNCHANGED <<collide, oracle, step_size, n_steps, store, t, n_accept,
                 old_sample, old_r_sample, new_sample, new_r_sample, ratio,
                 u, accept>>

NextLF == Forward \/ Backward

SpecLF == InitLF /\ [][NextLF]_vars

\* ------------------------------------------------------------------ sanity

\* Every float the run holds is a float of the model, and every halving was
\* of an even number.
TypeOK ==
  /\ \A z \in Vars : \A i \in 0..MaxT : store[z][i] \in Val
  /\ \A z \in Vars : new_r_sample.val[z] \in Val /\ new_sample.val[z] \in Val
  /\ \A z \in Vars : IsFinite(new_r_sample.val[z]) => new_r_sample.val[z] % 2 = 0
  /\ ratio \in Val
  /\ n_accept \in 0..MaxT
  /\ lf.pc \in {"fwd", "back"} =>
       \A z \in Vars : /\ lf.fwd[1].val[z] \in Val
                       /\ lf.fwd[2].val[z] \in Val
                       /\ IsFinite(lf.fwd[2].val[z]) => lf.fwd[2].val[z] % 2 = 0

\* ------------------------------------------------------------------ claims

\* A step has run: the locals hold its values, index t - 1 its commit.
Stepped == t > 1
Committed(z) == store[z][t - 1]
Previous(z) == store[z][Max(t - 2, 0)]

\* C1: in the Integrate phase the leapfrog sub-step is applied n_steps
\* times in a chain, so for n_steps >= 1 the proposal (new_sample,
\* new_r_sample) is the n_steps-fold composition of leapfrog applied to
\* (old_sample, old_r_sample).
C1_ProposalIsChain ==
  (Stepped /\ n_steps >= 1) =>
    LET c == LeapfrogChain(n_steps, old_sample, old_r_sample, step_size, oracle)
    IN /\ new_sample.val = c[1].val
       /\ new_r_sample.val = c[2].val

\* C2: the decision is one joint decision from the single draw u (accept
\* iff log(u) < ratio): index t receives new_sample's value of every latent
\* variable when accepted and old_sample's value of every latent variable
\* when rejected, each variable its own.
C2_JointDecision ==
  Stepped =>
    /\ accept <=> Less(Log(u), ratio)
    /\ \A z \in Vars :
         Committed(z) = IF accept THEN new_sample.val[z] ELSE old_sample.val[z]

\* C3: every step adds exactly 1 to the acceptance counter when its
\* proposal is accepted and leaves it unchanged when it is rejected; the
\* counter never decreases and never exceeds the number of steps run.
C3_Counter ==
  [][/\ accept' => n_accept' = n_accept + 1
     /\ ~accept' => n_accept' = n_accept
     /\ n_accept' >= n_accept
     /\ n_accept' <= t' - 1]_vars

C3_Witness == t > 3 /\ n_accept >= 1 /\ n_accept < t - 1 /\ ~accept

\* C4: a step at index t >= 1 reads index max(t - 1, 0) of every latent
\* variable and writes index t only: every other index of every sequence
\* keeps its value, and the next step is at index t + 1.
C4_Frame ==
  [][/\ \A z \in Vars : old_sample'.val[z] = store[z][Max(t - 1, 0)]
     /\ \A z \in Vars : \A i \in 0..MaxT : i # t => store'[z][i] = store[z][i]
     /\ t' = t + 1]_vars

C4_Witness ==
  /\ t > 3
  /\ \E z \in Vars : store[z][1] # store[z][0] /\ store[z][2] # store[z][1]
  /\ \A z \in Vars : Committed(z) = new_sample.val[z]

\* C5: when the oracle returns NaN for the proposal the step rejects for
\* every draw u: index t receives the value at index t - 1 for every latent
\* variable and the acceptance counter is unchanged.
C5_NaNRejects ==
  [][LogJoint(oracle, new_sample'.val) = NaN =>
       /\ ~accept'
       /\ n_accept' = n_accept
       /\ \A z \in Vars : store'[z][t] = store[z][Max(t - 1, 0)]]_vars

\* C6: when the log-acceptance ratio is +Inf or -Inf the step is a
\* rejection: the old position is committed at index t and the acceptance
\* counter is not incremented.
C6_InfRejects ==
  [][ratio' \in {PInf, NInf} =>
       /\ ~accept'
       /\ n_accept' = n_accept
       /\ \A z \in Vars : store'[z][t] = old_sample'.val[z]]_vars

\* C7: with finite values at index 0 every committed sample at every index
\* is finite.
C7_StoreFinite == \A z \in Vars : \A i \in 0..MaxT : IsFinite(store[z][i])

\* C10 as stated: with n_steps = 0 the proposal is the old point, the
\* ratio is 0 and every step is accepted, the counter growing by 1 a step
\* while index t receives the value at index t - 1.
C10_AlwaysAccepted ==
  (Stepped /\ n_steps = 0) =>
    /\ new_sample = old_sample /\ new_r_sample = old_r_sample
    /\ ratio = 0
    /\ accept
    /\ n_accept = t - 1
    /\ \A z \in Vars : Committed(z) = Previous(z)

\* C10 as amended: with n_steps = 0 the proposal is the old point and index
\* t receives the value at index t - 1; when the oracle's log-density of
\* the old position is finite the ratio is 0 and the step is accepted for
\* every draw (the counter grows by 1), and when it is NaN or infinite the
\* ratio is NaN and the step is rejected (the counter is unchanged).
C10_DegenerateSteps ==
  [][n_steps = 0 =>
       /\ new_sample' = old_sample' /\ new_r_sample' = old_r_sample'
       /\ \A z \in Vars : store'[z][t] = store[z][Max(t - 1, 0)]
       /\ IF IsFinite(LogJoint(oracle, old_sample'.val))
          THEN ratio' = 0 /\ accept' /\ n_accept' = n_accept + 1
          ELSE ratio' = NaN /\ ~accept' /\ n_accept' = n_accept]_vars

C10_Witness ==
  /\ n_steps = 0 /\ t > 3
  /\ accept /\ ratio = 0 /\ n_accept = t - 1
  /\ \A z \in Vars : Committed(z) = Previous(z)
  /\ \E z \in Vars : old_r_sample.val[z] # 0

\* A stand-alone run all of whose results are finite: no overflow, the
\* arithmetic was exact.
LfDone == lf.pc = "back"
LfExact ==
  \A z \in Vars : /\ IsFinite(lf.fwd[1].val[z]) /\ IsFinite(lf.fwd[2].val[z])
                  /\ IsFinite(lf.back[1].val[z]) /\ IsFinite(lf.back[2].val[z])

\* C8: integrating forward with step size h and then, from the result, with
\* step size -h for the same number of steps returns exactly the start
\* point, for every latent variable, when the arithmetic is exact.
C8_Reversible ==
  (LfDone /\ LfExact) =>
    /\ lf.back[1].val = lf.z0.val
    /\ lf.back[2].val = lf.r0.val

\* C9: one call of leapfrog returns, for every key of z_old and no other,
\* r_half = r_old + (h/2) grad(z_old), z_new = z_old + h r_half and
\* r_new = r_half + (h/2) grad(z_new), each variable with its own gradient.
C9_OneStep ==
  (lf.pc = "fwd" /\ lf.n = 1) =>
    LET r_half == [k \in Vars |->
                     Add(lf.r0.val[k], Mul(Half(lf.h), Grad(oracle, lf.z0.val, k)))]
        z_new == [k \in Vars |-> Add(lf.z0.val[k], Mul(lf.h, r_half[k]))]
        r_new == [k \in Vars |->
                     Add(r_half[k], Mul(Half(lf.h), Grad(oracle, z_new, k)))]
    IN /\ lf.fwd[1].val = z_new
       /\ lf.fwd[2].val = r_new
       /\ DOMAIN lf.fwd[1].val = DOMAIN lf.z0.val
       /\ DOMAIN lf.fwd[2].val = DOMAIN lf.z0.val

====
